---- MODULE Spec2Model ----
(***************************************************************************)
(* Model of the Indian startup funding dashboards app.py, app1.py and      *)
(* app2.py: the cached load_data() normaliser (read_csv, column plan,      *)
(* clean_amount, clean_date, categorical clean-up, outlier filter) and the *)
(* main() script that consumes its record set.                             *)
(*                                                                         *)
(* Text is modelled as a sequence of one-character strings.  A table cell  *)
(* is a record [t, s, n]: t = "str" for a text cell with characters s,     *)
(* t = "na" for the NaN that read_csv yields for an empty or NA cell, and  *)
(* t = "num" for a cell of a column that read_csv parsed as numbers (n).   *)
(***************************************************************************)
EXTENDS Integers, Sequences, FiniteSets, TLC

(***************************************************************************)
(* Characters and Python str methods                                       *)
(***************************************************************************)
Lo == <<"a","b","c","d","e","f","g","h","i","j","k","l","m","n","o","p","q","r","s","t","u","v","w","x","y","z">>

Up == <<"A","B","C","D","E","F","G","H","I","J","K","L","M","N","O","P","Q","R","S","T","U","V","W","X","Y","Z">>

Digits == <<"0","1","2","3","4","5","6","7","8","9">>

LowerSet == {Lo[i] : i \in 1..26}

UpperSet == {Up[i] : i \in 1..26}

DigitSet == {Digits[i] : i \in 1..10}

\* str.strip() with no argument removes these (the ASCII whitespace of a cell).
Whitespace == {" ", "\t"}

LowerCh(c) == IF c \in UpperSet THEN Lo[CHOOSE i \in 1..26 : Up[i] = c] ELSE c

UpperCh(c) == IF c \in LowerSet THEN Up[CHOOSE i \in 1..26 : Lo[i] = c] ELSE c

IsCased(c) == c \in LowerSet \/ c \in UpperSet

\* str.lower()
lower(s) == [i \in 1..Len(s) |-> LowerCh(s[i])]

\* str.title(): a cased character is upper-cased when the character before it
\* is uncased (or there is none), lower-cased otherwise.
title(s) == [i \in 1..Len(s) |->
               IF i > 1 /\ IsCased(s[i-1]) THEN LowerCh(s[i]) ELSE UpperCh(s[i])]

\* str.strip()
strip(s) ==
  LET keep == {i \in 1..Len(s) : s[i] \notin Whitespace}
  IN IF keep = {} THEN <<>>
     ELSE LET a == CHOOSE i \in keep : \A j \in keep : i <= j
              b == CHOOSE i \in keep : \A j \in keep : j <= i
          IN SubSeq(s, a, b)

\* str.replace(c, '') for a single character c
RemoveChar(s, c) == SelectSeq(s, LAMBDA ch : ch # c)

StartsWithAt(s, w, i) ==
  /\ i + Len(w) - 1 <= Len(s)
  /\ \A k \in 1..Len(w) : s[i + k - 1] = w[k]

\* w in s
Contains(s, w) == \E i \in 1..(Len(s) + 1) : StartsWithAt(s, w, i)

\* str.replace(w, '') for a non-empty word w: the leftmost occurrences,
\* scanned left to right without overlap.
RECURSIVE RemoveWordFrom(_, _, _)
RemoveWordFrom(s, w, i) ==
  IF i > Len(s) THEN <<>>
  ELSE IF StartsWithAt(s, w, i) THEN RemoveWordFrom(s, w, i + Len(w))
  ELSE <<s[i]>> \o RemoveWordFrom(s, w, i + 1)

RemoveWord(s, w) == RemoveWordFrom(s, w, 1)

(***************************************************************************)
(* Cells                                                                   *)
(***************************************************************************)
Txt(s) == [t |-> "str", s |-> s, n |-> 0]

NA == [t |-> "na", s |-> <<>>, n |-> 0]

NumCell(k) == [t |-> "num", s |-> <<>>, n |-> k]

RECURSIVE DigitsOf(_)
\* the decimal digits of a natural number, as str() prints them
DigitsOf(k) == IF k < 10 THEN <<Digits[k + 1]>>
               ELSE DigitsOf(k \div 10) \o <<Digits[(k % 10) + 1]>>

\* str(x) of a cell value: the text itself, "nan" for NaN, the digits of a number
PyStr(x) == IF x.t = "str" THEN x.s
            ELSE IF x.t = "na" THEN <<"n","a","n">>
            ELSE IF x.n < 0 THEN <<"-">> \o DigitsOf(0 - x.n) ELSE DigitsOf(x.n)

(***************************************************************************)
(* float(x) / 1000000                                                      *)
(*                                                                         *)
(* A float is [k, neg, whole, micro, fnum, fden]: k = "nan", "inf" or      *)
(* "num"; a number is (whole + micro/10^6 + (fnum/fden)/10^6), negated     *)
(* when neg.  A value in USD u + fnum/fden divided by 1000000 has          *)
(* whole = u div 10^6 and micro = u mod 10^6.  The cells of the model are  *)
(* short enough for every quotient to be exact in a double at this         *)
(* resolution; exponents ("1e9") and digit-group underscores ("1_000") are *)
(* outside the cell alphabets and float() is not modelled on them.         *)
(***************************************************************************)
Million == 1000000

NaN == [k |-> "nan", neg |-> FALSE, whole |-> 0, micro |-> 0, fnum |-> 0, fden |-> 1]

Inf(neg) == [k |-> "inf", neg |-> neg, whole |-> 0, micro |-> 0, fnum |-> 0, fden |-> 1]

\* the float u + fnum/fden (negated when neg), in USD, divided by 1000000
DivMillion(neg, u, fnum, fden) ==
  [k |-> "num", neg |-> neg, whole |-> u \div Million, micro |-> u % Million,
   fnum |-> fnum, fden |-> fden]

DigitVal(c) == (CHOOSE i \in 1..10 : Digits[i] = c) - 1

AllDigits(s) == \A i \in 1..Len(s) : s[i] \in DigitSet

RECURSIVE DecVal(_)
\* int() of a digit string (0 for the empty string)
DecVal(s) == IF s = <<>> THEN 0
             ELSE 10 * DecVal(SubSeq(s, 1, Len(s) - 1)) + DigitVal(s[Len(s)])

RECURSIVE Pow10(_)
Pow10(k) == IF k = 0 THEN 1 ELSE 10 * Pow10(k - 1)

FloatError == [ok |-> FALSE, k |-> "nan", neg |-> FALSE, int |-> 0, fnum |-> 0, fden |-> 1]

\* digits with at most one '.', the first at position p (Len(b) + 1 for none)
FloatOfDecimal(neg, b, p) ==
  IF /\ \A i \in 1..Len(b) : b[i] = "." => i = p
     /\ AllDigits(SubSeq(b, 1, p - 1)) /\ AllDigits(SubSeq(b, p + 1, Len(b)))
     /\ Len(b) >= 1 /\ b # <<".">>
    THEN [ok |-> TRUE, k |-> "num", neg |-> neg, int |-> DecVal(SubSeq(b, 1, p - 1)),
          fnum |-> DecVal(SubSeq(b, p + 1, Len(b))),
          fden |-> Pow10(Len(SubSeq(b, p + 1, Len(b))))]
  ELSE FloatError

\* the text after the sign: inf / infinity / nan in any letter case, or a decimal
FloatOfBody(neg, b) ==
  IF lower(b) = <<"i","n","f">> \/ lower(b) = <<"i","n","f","i","n","i","t","y">>
    THEN [ok |-> TRUE, k |-> "inf", neg |-> neg, int |-> 0, fnum |-> 0, fden |-> 1]
  ELSE IF lower(b) = <<"n","a","n">>
    THEN [ok |-> TRUE, k |-> "nan", neg |-> neg, int |-> 0, fnum |-> 0, fden |-> 1]
  ELSE FloatOfDecimal(neg, b,
         IF \E i \in 1..Len(b) : b[i] = "."
           THEN CHOOSE i \in 1..Len(b) : b[i] = "." /\ \A j \in 1..(i-1) : b[j] # "."
         ELSE Len(b) + 1)

\* one optional sign, then the body
FloatOfStripped(t) ==
  IF t # <<>> /\ t[1] \in {"+", "-"}
    THEN FloatOfBody(t[1] = "-", SubSeq(t, 2, Len(t)))
  ELSE FloatOfBody(FALSE, t)

\* float(s) for a str s: [ok |-> FALSE] stands for the ValueError.  Python
\* strips surrounding whitespace first.
PyFloat(s) == FloatOfStripped(strip(s))

\* f / 1000000 for the float f, NaN for the ValueError (except: return np.nan)
QuotientOrNaN(f) ==
  IF ~f.ok \/ f.k = "nan" THEN NaN
  ELSE IF f.k = "inf" THEN Inf(f.neg)
  ELSE DivMillion(f.neg, f.int, f.fnum, f.fden)

\* try: return float(x) / 1000000   except: return np.nan
FloatDiv(x) ==
  IF x.t = "na" THEN NaN
  ELSE IF x.t = "num"
    THEN DivMillion(x.n < 0, IF x.n < 0 THEN 0 - x.n ELSE x.n, 0, 1)
  ELSE QuotientOrNaN(PyFloat(x.s))

IsNaN(a) == a.k = "nan"

\* a > 0 for a float a (False for NaN and for -0.0)
Positive(a) ==
  \/ a.k = "inf" /\ ~a.neg
  \/ a.k = "num" /\ ~a.neg /\ (a.whole > 0 \/ a.micro > 0 \/ a.fnum > 0)

\* a < c for a float a and a natural number c >= 1
Below(a, c) ==
  \/ a.k = "inf" /\ a.neg
  \/ a.k = "num" /\ (a.neg \/ a.whole < c)

(***************************************************************************)
(* clean_amount, the closure of load_data                                  *)
(***************************************************************************)
Variants == {"app", "app1", "app2"}

\* app.py: the rejected-unit markers tested on x.lower()
RejectedApp == {<<"l","a","c">>, <<"l","a","k","h">>, <<"c","r">>,
                <<"u","n","k","n","o","w","n">>}

\* app1.py, app2.py: the markers tested on the lower-cased x
RejectedApp1 == RejectedApp \cup {<<"n","/","a">>}

\* app.py, after x = x.replace(...)...strip(): the two marker tests, then float
reject_or_float_app(y) ==
  IF \E u \in RejectedApp : Contains(lower(y), u) THEN NaN
  ELSE IF lower(y) = <<"n","/","a">> \/ y = <<>> THEN NaN
  ELSE FloatDiv(Txt(y))

clean_amount_app(x) ==
  IF x.t = "str"
    THEN reject_or_float_app(
           strip(RemoveWord(RemoveChar(RemoveChar(x.s, ","), "$"), <<"n","a","n">>)))
    ELSE FloatDiv(x)

\* app1.py, app2.py, after x = x.replace(...)...strip().lower()
reject_or_float_app1(y) ==
  IF \E u \in RejectedApp1 : Contains(y, u) THEN NaN
  ELSE FloatDiv(Txt(y))

\* s with its first occurrence of the character c removed: s.replace(c, '', 1)
RemoveFirstChar(s, c) ==
  IF \E i \in 1..Len(s) : s[i] = c
    THEN SubSeq(s, 1, (CHOOSE i \in 1..Len(s) : s[i] = c /\ \A j \in 1..(i - 1) : s[j] # c) - 1)
           \o SubSeq(s, (CHOOSE i \in 1..Len(s) : s[i] = c /\ \A j \in 1..(i - 1) : s[j] # c) + 1, Len(s))
    ELSE s

\* a clean_amount that removes only the first ',' and the first '$'
clean_amount_app1_first_symbol(x) ==
  IF x.t = "str"
    THEN reject_or_float_app1(lower(strip(RemoveFirstChar(RemoveFirstChar(x.s, ","), "$"))))
    ELSE FloatDiv(x)

clean_amount_app1(x) ==
  IF x.t = "str"
    THEN reject_or_float_app1(lower(strip(RemoveChar(RemoveChar(x.s, ","), "$"))))
    ELSE FloatDiv(x)

\* a clean_amount that only "removes non-numeric chars and converts to float",
\* with no test for the rejected unit markers
clean_amount_numeric_only(v, x) ==
  IF x.t = "str"
    THEN FloatDiv(Txt(SelectSeq(x.s, LAMBDA c : c \in DigitSet \cup {"."})))
    ELSE FloatDiv(x)

clean_amount(v, x) == IF v = "app" THEN clean_amount_app(x) ELSE clean_amount_app1(x)

(***************************************************************************)
(* clean_date: datetime.strptime(str(date_str).strip(), '%d/%m/%Y')        *)
(*                                                                         *)
(* _strptime compiles the format to the regular expression                 *)
(*   (?P<d>3[0-1]|[1-2]\d|0[1-9]|[1-9]| [1-9])/                            *)
(*   (?P<m>1[0-2]|0[1-9]|[1-9])/(?P<Y>\d\d\d\d)                            *)
(* which must match the whole text, then builds datetime(Y, m, d), which   *)
(* raises ValueError for a year 0 or a day the month does not have.        *)
(***************************************************************************)
NaT == [ok |-> FALSE, y |-> 0, m |-> 0, d |-> 0]

\* the %d directive
DayToken(w) ==
  \/ Len(w) = 2 /\ w[1] = "3" /\ w[2] \in {"0", "1"}
  \/ Len(w) = 2 /\ w[1] \in {"1", "2"} /\ w[2] \in DigitSet
  \/ Len(w) = 2 /\ w[1] = "0" /\ w[2] \in DigitSet \ {"0"}
  \/ Len(w) = 1 /\ w[1] \in DigitSet \ {"0"}
  \/ Len(w) = 2 /\ w[1] = " " /\ w[2] \in DigitSet \ {"0"}

\* the %m directive
MonthToken(w) ==
  \/ Len(w) = 2 /\ w[1] = "1" /\ w[2] \in {"0", "1", "2"}
  \/ Len(w) = 2 /\ w[1] = "0" /\ w[2] \in DigitSet \ {"0"}
  \/ Len(w) = 1 /\ w[1] \in DigitSet \ {"0"}

\* the %Y directive
YearToken(w) == Len(w) = 4 /\ AllDigits(w)

IsLeap(y) == y % 4 = 0 /\ (y % 100 # 0 \/ y % 400 = 0)

DaysInMonth(y, m) ==
  IF m = 2 THEN (IF IsLeap(y) THEN 29 ELSE 28)
  ELSE IF m \in {4, 6, 9, 11} THEN 30 ELSE 31

\* datetime(y, m, d) is constructed without ValueError
ValidYMD(y, m, d) == y >= 1 /\ m \in 1..12 /\ d >= 1 /\ d <= DaysInMonth(y, m)

\* datetime(y, m, d), NaT for its ValueError
MakeDate(y, m, d) ==
  IF ValidYMD(y, m, d) THEN [ok |-> TRUE, y |-> y, m |-> m, d |-> d] ELSE NaT

\* the regular expression matches s with its two '/' at positions i < j
Matches(s, i, j) ==
  /\ i < j
  /\ s[i] = "/" /\ s[j] = "/"
  /\ DayToken(SubSeq(s, 1, i - 1))
  /\ MonthToken(SubSeq(s, i + 1, j - 1))
  /\ YearToken(SubSeq(s, j + 1, Len(s)))

\* int() of the three groups of the match
DateOfMatch(s, ij) ==
  MakeDate(DecVal(SubSeq(s, ij[2] + 1, Len(s))),
           DecVal(SubSeq(s, ij[1] + 1, ij[2] - 1)),
           DecVal(strip(SubSeq(s, 1, ij[1] - 1))))

strptime(s) ==
  IF \E i \in 1..Len(s), j \in 1..Len(s) : Matches(s, i, j)
    THEN DateOfMatch(s, CHOOSE ij \in (1..Len(s)) \X (1..Len(s)) : Matches(s, ij[1], ij[2]))
  ELSE NaT

\* a clean_date that does not trim: strptime(str(date_str), '%d/%m/%Y')
clean_date_no_strip(x) == strptime(PyStr(x))

clean_date(x) == strptime(strip(PyStr(x)))

(***************************************************************************)
(* The categorical columns                                                 *)
(***************************************************************************)
Other == <<"O","t","h","e","r">>

\* .replace({'Nan': 'Other', 'N/A': 'Other', 'Nan/Nan': 'Other'}) (app.py);
\* app1.py and app2.py have no 'Nan/Nan' key
MissingKeys(v) ==
  IF v = "app" THEN {<<"N","a","n">>, <<"N","/","A">>, <<"N","a","n","/","N","a","n">>}
  ELSE {<<"N","a","n">>, <<"N","/","A">>}

\* the city synonym table, as a set of <<key, value>>
CityTable ==
  { << <<"B","e","n","g","a","l","u","r","u">>, <<"B","a","n","g","a","l","o","r","e">> >>,
    << <<"N","e","w"," ","D","e","l","h","i">>, <<"D","e","l","h","i">> >>,
    << <<"G","u","r","u","g","r","a","m">>, <<"G","u","r","g","a","o","n">> >>,
    << <<"H","y","d","r","a","b","a","d">>, <<"H","y","d","e","r","a","b","a","d">> >> }

\* the investment type synonym table of a variant
TypeTable(v) ==
  { << <<"S","e","e","d","/"," ","A","n","g","e","l"," ","F","u","n","d","i","n","g">>,
       <<"S","e","e","d","/","A","n","g","e","l"," ","F","u","n","d","i","n","g">> >> }
  \cup
  (IF v = "app"
     THEN { << <<"P","r","i","v","a","t","e"," ","E","q","u","i","t","y">>,
               <<"P","r","i","v","a","t","e"," ","E","q","u","i","t","y","/","V","e","n","t","u","r","e"," ","C","a","p","i","t","a","l">> >> }
     ELSE {})

\* Series.replace(dict) on one value: the value of the key equal to it, else itself
ReplaceBy(table, w) ==
  IF \E kv \in table : kv[1] = w THEN (CHOOSE kv \in table : kv[1] = w)[2] ELSE w

\* .astype(str).str.strip().str.title().replace({...missing keys...}), and in
\* app.py the following replace('', 'Other')
replace_missing(v, a) ==
  IF a \in MissingKeys(v) THEN Other
  ELSE IF v = "app" /\ a = <<>> THEN Other
  ELSE a

clean_text(v, x) == replace_missing(v, title(strip(PyStr(x))))

\* a city cleaning that applies the synonym table before title-casing
clean_city_table_first(v, x) ==
  replace_missing(v, title(ReplaceBy(CityTable, strip(PyStr(x)))))

clean_city(v, x) == ReplaceBy(CityTable, clean_text(v, x))

clean_type(v, x) == ReplaceBy(TypeTable(v), clean_text(v, x))

(***************************************************************************)
(* load_data: the body under @st.cache_data                                *)
(*                                                                         *)
(* The source file is [readable, ncols, dateLabel, rows]: readable is      *)
(* whether pd.read_csv(..., header=4) returns a table, ncols the number of *)
(* columns of that table, dateLabel whether one of its header labels is    *)
(* date-like, and rows its data rows, each a sequence of ncols fields, the *)
(* text between the commas (column index c is position c + 1).             *)
(*                                                                         *)
(* A data frame is a sequence of rows [idx, Date, Name, Sector, City,      *)
(* Type, Amount, Year, Month] in index order, idx being the pandas index   *)
(* label the row got from read_csv.  The outcome of a call is              *)
(* [kind, err, cols, rows]: kind "frame" for a returned frame (cols FALSE  *)
(* for the bare pd.DataFrame()), kind "raised" for an exception leaving    *)
(* load_data; err holds the st.error messages issued.                      *)
(***************************************************************************)
ColumnPlan == <<13, 14, 15, 17, 19, 20>>

Ceiling == 1000

LoadError == "Error loading the CSV file"

ColumnError == "Column selection failed"

Frame(rows) == [kind |-> "frame", err |-> {}, cols |-> TRUE, rows |-> rows]

EmptyWith(m) == [kind |-> "frame", err |-> {m}, cols |-> FALSE, rows |-> <<>>]

Raised == [kind |-> "raised", err |-> {}, cols |-> FALSE, rows |-> <<>>]

\* data.iloc[:, [13, 14, 15, 17, 19, 20]] raises IndexError
PlanOutOfBounds(f) == \E k \in 1..Len(ColumnPlan) : ColumnPlan[k] >= f.ncols

\* pd.read_csv's default na_values: a field equal to one of them is read as NaN
NaValues ==
  {<<>>,
   <<"#","N","/","A">>,
   <<"#","N","/","A"," ","N","/","A">>,
   <<"#","N","A">>,
   <<"-","1",".","#","I","N","D">>,
   <<"-","1",".","#","Q","N","A","N">>,
   <<"-","N","a","N">>,
   <<"-","n","a","n">>,
   <<"1",".","#","I","N","D">>,
   <<"1",".","#","Q","N","A","N">>,
   <<"<","N","A",">">>,
   <<"N","/","A">>,
   <<"N","A">>,
   <<"N","U","L","L">>,
   <<"N","a","N">>,
   <<"N","o","n","e">>,
   <<"n","/","a">>,
   <<"n","a","n">>,
   <<"n","u","l","l">>}

\* the cell read_csv makes of a field of a text (object) column
ReadCell(w) == IF w \in NaValues THEN NA ELSE Txt(w)

\* read_csv infers a numeric dtype for a column whose fields are all integer
\* numerals or NA values (with at least one numeral)
NumericColumn(f, c) ==
  /\ \A i \in 1..Len(f.rows) :
       \/ f.rows[i][c + 1] \in NaValues
       \/ f.rows[i][c + 1] # <<>> /\ AllDigits(f.rows[i][c + 1])
  /\ \E i \in 1..Len(f.rows) : f.rows[i][c + 1] \notin NaValues

\* the value of row i (from 1), column c (from 0) of the table read_csv returns
ReadCsv(f, i, c) ==
  LET w == f.rows[i][c + 1]
  IN IF NumericColumn(f, c) /\ w \notin NaValues THEN NumCell(DecVal(w)) ELSE ReadCell(w)

\* df = data.iloc[:, plan].copy(); df.columns = ['Date', 'Startup Name', ...]
SelectColumns(f) ==
  [i \in 1..Len(f.rows) |->
     [idx    |-> i - 1,
      Date   |-> ReadCsv(f, i, ColumnPlan[1]),
      Name   |-> ReadCsv(f, i, ColumnPlan[2]),
      Sector |-> ReadCsv(f, i, ColumnPlan[3]),
      City   |-> ReadCsv(f, i, ColumnPlan[4]),
      Type   |-> ReadCsv(f, i, ColumnPlan[5]),
      Amount |-> ReadCsv(f, i, ColumnPlan[6]),
      Year   |-> 0,
      Month  |-> <<0, 0>>]]

\* df['Amount'] = df['Amount'].apply(clean_amount)
ApplyAmount(v, df) ==
  [i \in 1..Len(df) |-> [df[i] EXCEPT !.Amount = clean_amount(v, df[i].Amount)]]

\* df.dropna(subset=['Amount'], inplace=True)
DropNaAmount(df) == SelectSeq(df, LAMBDA r : ~IsNaN(r.Amount))

\* df = df[df['Amount'] > 0]
KeepPositive(df) == SelectSeq(df, LAMBDA r : Positive(r.Amount))

\* df['Date'] = df['Date'].apply(clean_date); df.dropna(subset=['Date'], ...)
ApplyDate(df) ==
  [i \in 1..Len(df) |-> [df[i] EXCEPT !.Date = clean_date(df[i].Date)]]

DropNaDate(df) == SelectSeq(df, LAMBDA r : r.Date.ok)

\* Series.apply on an empty Series returns an empty Series of the dtype it
\* had (object for a column read as text), on a non-empty one a Series that
\* the constructor infers as datetime64 from the datetime / NaT results.
DateIsDatetime64(df) == Len(df) > 0

\* df['Year'] = df['Date'].dt.year; df['Month'] = df['Date'].dt.to_period('M')
AddYearMonth(df) ==
  [i \in 1..Len(df) |->
     [df[i] EXCEPT !.Year = df[i].Date.y, !.Month = <<df[i].Date.y, df[i].Date.m>>]]

\* for col in text_cols: ...
CleanTextCols(v, df) ==
  [i \in 1..Len(df) |->
     [df[i] EXCEPT !.Sector = clean_text(v, df[i].Sector),
                   !.City   = clean_city(v, df[i].City),
                   !.Type   = clean_type(v, df[i].Type),
                   !.Name   = clean_text(v, df[i].Name)]]

\* df[df['Amount'] <= 1000]: the ceiling as an inclusive bound
DropOutliersInclusive(df) ==
  SelectSeq(df, LAMBDA r :
    \/ Below(r.Amount, Ceiling)
    \/ r.Amount.k = "num" /\ ~r.Amount.neg /\ r.Amount.whole = Ceiling
         /\ r.Amount.micro = 0 /\ r.Amount.fnum = 0)

\* df = df[df['Amount'] < 1000]
DropOutliers(df) == SelectSeq(df, LAMBDA r : Below(r.Amount, Ceiling))

\* the body of load_data in variant v on source file f
\* load_data from step 2 on, df being the frame the amount step leaves
clean_from_date(v, df) ==
  IF ~DateIsDatetime64(df)
    THEN Raised    \* df['Date'].dt on an object column: AttributeError
  ELSE Frame(DropOutliers(CleanTextCols(v, AddYearMonth(DropNaDate(ApplyDate(df))))))

\* the body of load_data in variant v on source file f
load_body(v, f) ==
  IF ~f.readable THEN EmptyWith(LoadError)
  ELSE IF PlanOutOfBounds(f) THEN EmptyWith(ColumnError)
  ELSE clean_from_date(v, KeepPositive(DropNaAmount(ApplyAmount(v, SelectColumns(f)))))

\* df.empty
IsEmpty(o) == Len(o.rows) = 0

(***************************************************************************)
(* State                                                                   *)
(*   variant  the script the Streamlit server runs (app, app1 or app2)     *)
(*   file     the content of merged.csv.csv                                *)
(*   cache    the entry of @st.cache_data for load_data(): [has, out]      *)
(*   ret      the outcome of the latest load_data() call                   *)
(*   msgs     the st.error / st.warning messages of the current run        *)
(*   pc       the position of the current run of main()                    *)
(*   page     [status, shown, calls]: how the latest run ended, the        *)
(*            elements it rendered, and the <<function, rows>> pairs of    *)
(*            the computations it made on record sets                      *)
(***************************************************************************)
VARIABLES variant, file, cache, ret, msgs, pc, page

vars == <<variant, file, cache, ret, msgs, pc, page>>

NoOutcome == [kind |-> "none", err |-> {}, cols |-> FALSE, rows |-> <<>>]

NoEntry == [has |-> FALSE, out |-> NoOutcome]

NoData == "No data matches the selected filters"

TopN == 10

\* load_data() as decorated: a hit replays the stored return value and the
\* st.error elements recorded with it; a miss runs the body and stores its
\* return value (an exception stores nothing).  The key is the function and
\* its (empty) argument list: the file is no part of it.
cached_call(c, v, f) == IF c.has THEN c.out ELSE load_body(v, f)

cache_after(c, out) == IF ~c.has /\ out.kind = "frame" THEN [has |-> TRUE, out |-> out] ELSE c

\* main(): st.title(...); df = load_data(); if df.empty: return
MainLoadData ==
  /\ pc = "idle"
  /\ \E out \in {cached_call(cache, variant, file)} :
        /\ ret' = out
        /\ cache' = cache_after(cache, out)
        /\ msgs' = out.err
        /\ IF out.kind = "raised"
             THEN pc' = "idle" /\ page' = [status |-> "raised", shown |-> {"title"}, calls |-> {}]
           ELSE IF IsEmpty(out)
             THEN pc' = "idle" /\ page' = [status |-> "stopped", shown |-> {"title"}, calls |-> {}]
           ELSE pc' = "filters" /\ page' = [status |-> "running", shown |-> {"title"}, calls |-> {}]
  /\ UNCHANGED <<variant, file>>

Range(q) == {q[i] : i \in 1..Len(q)}

Cities(df) == {r.City : r \in Range(df)}

Years(df) == {r.Year : r \in Range(df)}

CountOf(df, c) == Cardinality({i \in 1..Len(df) : df[i].City = c})

FirstAt(df, c) == CHOOSE i \in 1..Len(df) : df[i].City = c /\ \A j \in 1..(i-1) : df[j].City # c

\* df['City'].value_counts().nlargest(10).index
TopCities(df) ==
  {c \in Cities(df) :
     Cardinality({d \in Cities(df) :
                    \/ CountOf(df, d) > CountOf(df, c)
                    \/ CountOf(df, d) = CountOf(df, c) /\ FirstAt(df, d) < FirstAt(df, c)})
       < TopN}

\* the default= of the city multiselect
DefaultCities(v, df) ==
  IF v = "app2"
    THEN {<<"B","a","n","g","a","l","o","r","e">>, <<"M","u","m","b","a","i">>,
          <<"D","e","l","h","i">>}
  ELSE {c \in TopCities(df) : c \in Cities(df) /\ c # Other}

\* a <= b for two amounts of the frame (positive numbers below the ceiling)
AmountLeq(a, b) ==
  \/ a.whole < b.whole
  \/ a.whole = b.whole /\ a.micro < b.micro
  \/ a.whole = b.whole /\ a.micro = b.micro /\ a.fnum * b.fden <= b.fnum * a.fden

Charts == {"kpis", "funding_over_time", "top_city", "top_sector", "investment_types"}

Aggregations == {"display_kpis", "plot_funding_over_time", "plot_top_categorical",
                 "plot_investment_types"}

\* the min() and max() main computes on df for its sliders, each with the
\* number of rows of df: those of the year slider, and in app2.py those of
\* the amount slider
SliderCalls(v, df) ==
  {<<"min_max_year", Len(df)>>}
    \cup (IF v = "app2" THEN {<<"min_max_amount", Len(df)>>} ELSE {})

Widgets(v) ==
  {"year_slider", "city_multiselect", "count"}
    \cup (IF v = "app2" THEN {"amount_slider"} ELSE {})

\* the rows of df the filters keep: years y0..y1, cities sel, and in app2.py
\* amounts between those of rows a0 and a1
Filtered(v, df, y0, y1, sel, a0, a1) ==
  SelectSeq(df, LAMBDA r :
    /\ r.Year >= y0 /\ r.Year <= y1
    /\ r.City \in sel
    /\ v = "app2" =>
         /\ AmountLeq(df[a0].Amount, r.Amount)
         /\ AmountLeq(r.Amount, df[a1].Amount))

\* main() after the filters, without its test of filtered_df.empty
AfterFilterUnguarded(p, m, widgets, calls, filtered) ==
  [page |-> [status |-> "rendered", shown |-> p.shown \cup widgets \cup Charts,
             calls |-> calls \cup {<<"nunique", Len(filtered)>>}
                         \cup {<<f, Len(filtered)>> : f \in Aggregations}],
   msgs |-> m]

\* main() after the filters: the line with the number of startups, then the
\* warning and the return when filtered_df is empty, else the KPIs and charts
AfterFilter(p, m, widgets, calls, filtered) ==
  IF Len(filtered) = 0
    THEN [page |-> [status |-> "warned", shown |-> p.shown \cup widgets,
                    calls |-> calls \cup {<<"nunique", 0>>}],
          msgs |-> m \cup {NoData}]
    ELSE [page |-> [status |-> "rendered", shown |-> p.shown \cup widgets \cup Charts,
                    calls |-> calls \cup {<<"nunique", Len(filtered)>>}
                                \cup {<<f, Len(filtered)>> : f \in Aggregations}],
          msgs |-> m]

\* main() from the sidebar to the end: the sliders and the multiselect take
\* the values the user has set (any the widget offers), the frame is
\* filtered, and the KPIs and charts are drawn unless nothing is left.
MainRender ==
  /\ pc = "filters"
  /\ IF ~(DefaultCities(variant, ret.rows) \subseteq Cities(ret.rows))
       THEN \* st.multiselect: a default value that is no option raises
            /\ page' = [status |-> "raised", shown |-> page.shown \cup {"year_slider"},
                        calls |-> {<<"min_max_year", Len(ret.rows)>>}]
            /\ msgs' = msgs
       ELSE \E y0 \in Years(ret.rows), y1 \in Years(ret.rows),
               sel \in SUBSET Cities(ret.rows),
               a0 \in 1..Len(ret.rows), a1 \in 1..Len(ret.rows) :
              /\ y0 <= y1
              /\ AmountLeq(ret.rows[a0].Amount, ret.rows[a1].Amount)
              /\ variant # "app2" => a0 = 1 /\ a1 = 1
              /\ \E out \in {AfterFilter(page, msgs, Widgets(variant),
                                         SliderCalls(variant, ret.rows),
                                         Filtered(variant, ret.rows, y0, y1, sel, a0, a1))} :
                   page' = out.page /\ msgs' = out.msgs
  /\ pc' = "idle"
  /\ UNCHANGED <<variant, file, cache, ret>>

(***************************************************************************)
(* Source files of the model                                               *)
(***************************************************************************)
\* A row of n fields carrying the six funding fields c = <<date, name,
\* sector, city, type, amount>>: at the positions of the column plan when the
\* table is wide enough for it, else in the first six columns.
MkRow(n, c) ==
  [k \in 1..n |->
     IF n > ColumnPlan[6]
       THEN (IF \E j \in 1..6 : ColumnPlan[j] + 1 = k
               THEN c[CHOOSE j \in 1..6 : ColumnPlan[j] + 1 = k] ELSE <<>>)
     ELSE (IF k <= 6 THEN c[k] ELSE <<>>)]

PlanWidth == ColumnPlan[6] + 1

\* a readable table of n columns whose rows carry the field tuples of cs
Table(n, dl, cs) ==
  [readable |-> TRUE, ncols |-> n, dateLabel |-> dl,
   rows |-> [i \in 1..Len(cs) |-> MkRow(n, cs[i])]]

Unreadable == [readable |-> FALSE, ncols |-> 0, dateLabel |-> FALSE, rows |-> <<>>]

SeqsUpTo(S, n) == UNION {[1..k -> S] : k \in 0..n}

MaxRows == 2

\* amount fields
A2M == <<"$","2",",","0","0","0",",","0","0","0">>

A5cr == <<"5"," ","c","r">>

ACeiling == <<"1","0","0","0","0","0","0","0","0","0">>

ABelow == <<"9","9","9","9","9","0","0","0","0">>

AZero == <<"0">>

\* date fields
D2020 == <<"0","1","/","0","1","/","2","0","2","0">>

DDashes == <<"1","3","-","1","3","-","2","0","2","0">>

D2016 == <<"1","5","/","0","3","/","2","0","1","6">>

\* categorical fields
Bengaluru == <<"B","e","n","g","a","l","u","r","u">>

Bangalore == <<"B","a","n","g","a","l","o","r","e">>

Mumbai == <<"M","u","m","b","a","i">>

TOla == <<"O","l","a">>

TTransport == <<"T","r","a","n","s","p","o","r","t">>

TPrivateEquity == <<"P","r","i","v","a","t","e"," ","E","q","u","i","t","y">>

TableAmounts == {A2M, A5cr, ACeiling, ABelow, AZero, <<>>}

TableDates == {D2020, DDashes, D2016}

TableCities == {Bengaluru, <<" ","b","a","n","g","a","l","o","r","e"," ">>,
                <<"G","u","r","u","g","r","a","m">>, <<" "," ">>, <<>>, Mumbai}

\* <<name, sector, type>>
TableTexts == { <<TOla, TTransport, TPrivateEquity>>,
                <<<<>>, <<"N","/","a">>, <<"s","e","e","d","/"," ","a","n","g","e","l"," ","f","u","n","d","i","n","g">>>>,
                <<<<" ">>, <<"N","A","N">>, <<" "," ">>>> }

\* the field tuples of the table rows: every amount with every date, and
\* every city with every <<name, sector, type>>
TableRows ==
  {<<d, TOla, TTransport, Mumbai, TPrivateEquity, a>> : d \in TableDates, a \in TableAmounts}
  \cup {<<D2020, t[1], t[2], c, t[3], A2M>> : c \in TableCities, t \in TableTexts}

\* the rows A, B and C of the end-to-end scenario, and a row D that passes
\* every rule
RowA == <<D2020, TOla, TTransport, Bengaluru, TPrivateEquity, A2M>>

RowB == <<D2020, TOla, TTransport, Mumbai, TPrivateEquity, A5cr>>

RowC == <<DDashes, TOla, TTransport, Mumbai, TPrivateEquity, A2M>>

RowD == <<D2016, TOla, TTransport, Mumbai, TPrivateEquity, ABelow>>

\* the table of the end-to-end scenario
ScenarioTable ==
  Table(PlanWidth, TRUE,
<<RowA, RowB, RowC>>)

TableFiles == {Table(PlanWidth, TRUE, cs) : cs \in SeqsUpTo(TableRows, MaxRows)}
                \cup {ScenarioTable}

Start(v, f) ==
  /\ variant = v
  /\ file = f
  /\ cache = NoEntry
  /\ ret = NoOutcome
  /\ msgs = {}
  /\ pc = "idle"
  /\ page = [status |-> "none", shown |-> {}, calls |-> {}]

InitTable == \E v \in Variants, f \in TableFiles : Start(v, f)

\* a server start on one table, and the first run of main() up to its filters
SpecTable == InitTable /\ [][MainLoadData]_vars

(***************************************************************************)
(* Amount fields that contain a rejected-unit marker                       *)
(***************************************************************************)
\* the word w with the letters at the positions of up in upper case
Cased(w, up) == [i \in 1..Len(w) |-> IF i \in up THEN UpperCh(w[i]) ELSE w[i]]

AllCasings(w) == {Cased(w, up) : up \in SUBSET (1..Len(w))}

MaxPad == 1

PadAlphabet == {"1", ",", " "}

\* what surrounds the marker: every text of up to MaxPad characters over the
\* pad alphabet, and a few others
Pads == SeqsUpTo(PadAlphabet, MaxPad)
          \cup {<<"$">>, <<".">>, <<"a","n">>, <<"n","a">>, <<"5"," ">>}

Markers == {<<"l","a","k","h">>, <<"c","r">>, <<"u","n","k","n","o","w","n">>,
            <<"n","/","a">>}

MarkerAmounts == {a \o m \o b : a \in Pads, b \in Pads, m \in UNION {AllCasings(w) : w \in Markers}}

\* the row with amount field a, valid otherwise
AmountRow(a) == <<D2020, TOla, TTransport, Mumbai, TPrivateEquity, a>>

\* the row with a above a row that passes every rule
MarkerFiles == {Table(PlanWidth, TRUE, <<AmountRow(a), RowD>>) : a \in MarkerAmounts}

InitMarker == \E v \in Variants, f \in MarkerFiles : Start(v, f)

SpecMarker == InitMarker /\ [][MainLoadData]_vars

(***************************************************************************)
(* Amount fields made of digits, separators and currency symbols           *)
(***************************************************************************)
MaxLen == 4

NumberAlphabet == {"0", "1", "5", ",", "$", ".", " ", "-"}

NumberAmounts ==
  SeqsUpTo(NumberAlphabet, MaxLen)
    \cup {<<"$","1",",","5","0","0",",","0","0","0">>, <<"1","5","0","0","0","0","0">>,
          <<"1",",","5","0","0",",","0","0","0","$">>, <<"$","$","1","5",",",",","0","0","0","0","0">>,
          A2M, ABelow, ACeiling}

NumberFiles == {Table(PlanWidth, TRUE, <<AmountRow(a)>>) : a \in NumberAmounts}
                 \cup {Table(PlanWidth, TRUE, <<AmountRow(a), AmountRow(A5cr)>>) : a \in NumberAmounts}

InitNumber == \E v \in Variants, f \in NumberFiles : Start(v, f)

SpecNumber == InitNumber /\ [][MainLoadData]_vars

(***************************************************************************)
(* Date fields                                                             *)
(***************************************************************************)
DayTexts == {<<"1","5">>, <<"5">>, <<"0","5">>, <<"3","1">>, <<"2","9">>, <<"3","0">>,
             <<"0","0">>, <<"0">>, <<"3","2">>}

MonthTexts == {<<"0","3">>, <<"3">>, <<"0","2">>, <<"2">>, <<"1","3">>, <<"0","0">>,
               <<"0","4">>}

YearTexts == {<<"2","0","1","6">>, <<"2","0","1","5">>, <<"1","6">>, <<"0","0","0","0">>,
              <<"2","0","1","6","0">>}

Separators == {<<"/">>, <<"-">>}

Leading == {<<>>, <<" ">>}

Trailing == {<<>>, <<" ">>, <<" ","x">>}

DateTexts ==
  {a \o d \o p \o m \o q \o y \o b :
     a \in Leading, d \in DayTexts, p \in Separators, m \in MonthTexts,
     q \in Separators, y \in YearTexts, b \in Trailing}
  \cup {<<"2","0","1","6","-","0","3","-","1","5">>, <<"0","3","/","1","5","/","2","0","1","6">>,
        <<"1","3","-","1","3","-","2","0","2","0">>, <<"1","5","/","0","3","/","/","2","0","1","6">>,
        <<"n","a","n">>, <<>>}

DateRow(d) == <<d, TOla, TTransport, Mumbai, TPrivateEquity, A2M>>

DateFiles == {Table(PlanWidth, TRUE, <<DateRow(d)>>) : d \in DateTexts}

InitDate == \E v \in Variants, f \in DateFiles : Start(v, f)

SpecDate == InitDate /\ [][MainLoadData]_vars

(***************************************************************************)
(* Categorical fields                                                      *)
(***************************************************************************)
Spaces == {<<>>, <<" ">>, <<" "," ">>, <<"\t">>}

CityNames == {Bengaluru, Bangalore, <<"G","u","r","u","g","r","a","m">>}

OtherNames == {<<"N","e","w"," ","D","e","l","h","i">>, <<"H","y","d","r","a","b","a","d">>,
               <<"D","e","l","h","i">>, Mumbai, <<"n","a","n">>, <<"n","/","a">>,
               <<"n","a","n","/","n","a","n">>, <<"n","a">>, TPrivateEquity,
               <<"s","e","e","d","/"," ","a","n","g","e","l"," ","f","u","n","d","i","n","g">>}

CategoricalTexts ==
  {a \o w \o b : a \in Spaces, b \in Spaces,
                 w \in UNION {AllCasings(lower(n)) : n \in CityNames}
                         \cup UNION {{n, lower(n), title(n), Cased(n, 1..Len(n))} : n \in OtherNames}
                         \cup {<<>>}}

\* one row with the text t in each of the four categorical fields
TextRow(t) == <<D2020, t, t, t, t, A2M>>

TextFiles == {Table(PlanWidth, TRUE, <<TextRow(t)>>) : t \in CategoricalTexts}

InitText == \E v \in Variants, f \in TextFiles : Start(v, f)

SpecText == InitText /\ [][MainLoadData]_vars

(***************************************************************************)
(* The running server: runs of main() and changes of the source file       *)
(***************************************************************************)
\* a row of a table without a date column: a serial number where the plan
\* expects the date
RowNoDate == <<<<"1">>, TOla, TTransport, Mumbai, TPrivateEquity, A2M>>

\* a row of the city "New Delhi" that passes every rule
RowE == <<D2016, <<"O","y","o">>, TTransport, <<"N","e","w"," ","D","e","l","h","i">>,
          TPrivateEquity, A2M>>

ProgramFiles ==
  { Unreadable,
    Table(PlanWidth - 1, TRUE, <<RowA>>),
    Table(PlanWidth - 1, FALSE, <<RowNoDate>>),
    ScenarioTable,
    Table(PlanWidth, TRUE, <<RowB>>),
    Table(PlanWidth, TRUE, <<RowC>>),
    Table(PlanWidth, FALSE, <<RowNoDate>>),
    Table(PlanWidth + 1, TRUE, <<RowA, RowD>>),
    Table(PlanWidth, TRUE, <<RowA, RowD, RowE>>) }

Init == \E v \in Variants, f \in ProgramFiles : Start(v, f)

\* merged.csv.csv is replaced, removed or restored while the server runs
WriteFile ==
  /\ \E f \in ProgramFiles : f # file /\ file' = f
  /\ UNCHANGED <<variant, cache, ret, msgs, pc, page>>

Next == MainLoadData \/ MainRender \/ WriteFile

Spec == Init /\ [][Next]_vars

(***************************************************************************)
(* Properties                                                              *)
(***************************************************************************)
\* load_data() has been called
Loaded == ret.kind # "none"

\* the index labels of the returned frame
RetIdx == {r.idx : r \in Range(ret.rows)}

\* the text of field k of the column plan (1 date, 2 name, 3 sector, 4 city,
\* 5 type, 6 amount) in row i of the source file
RawText(i, k) == file.rows[i][ColumnPlan[k] + 1]

\* what clean_amount and clean_date make of row i of the source file
AmountOf(i) == clean_amount(variant, ReadCsv(file, i, ColumnPlan[6]))

DateOf(i) == clean_date(ReadCsv(file, i, ColumnPlan[1]))

\* a float that is a number of at least c, or +inf
AtLeast(a, c) == ~a.neg /\ (a.k = "inf" \/ (a.k = "num" /\ a.whole >= c))

\* a float that is a number strictly between 0 and c
StrictlyBetween0And(a, c) ==
  a.k = "num" /\ ~a.neg /\ a.whole < c /\ (a.whole > 0 \/ a.micro > 0 \/ a.fnum > 0)

\* row i of the source file passes every cleaning rule
PassesRules(i) == StrictlyBetween0And(AmountOf(i), Ceiling) /\ DateOf(i).ok

\* C1: every record load_data returns has a valid date, an amount strictly
\* between 0 and 1000, and non-empty text in each of the four categorical
\* fields.
C1_RecordsValid ==
  ret.kind = "frame" =>
    \A r \in Range(ret.rows) :
      /\ r.Date.ok /\ ValidYMD(r.Date.y, r.Date.m, r.Date.d)
      /\ StrictlyBetween0And(r.Amount, Ceiling)
      /\ r.Name # <<>> /\ r.Sector # <<>> /\ r.City # <<>> /\ r.Type # <<>>

\* the record load_data makes of row i when the row is alone in its table
AloneRecord(i) ==
  load_body(variant, [file EXCEPT !.rows = <<file.rows[i]>>]).rows[1]

\* C2: load_data returns exactly the rows that pass every cleaning rule, in
\* their original order, each with the values its own cells give it, and a
\* row that fails a rule is dropped without an error; of the scenario table
\* it returns row A alone, with amount 2.0 and city Bangalore.
C2_ReturnsPassingRows ==
  (Loaded /\ Len(file.rows) >= 1) =>
    /\ ret.kind = "frame" /\ ret.err = {}
    /\ RetIdx = {i - 1 : i \in {j \in 1..Len(file.rows) : PassesRules(j)}}
    /\ \A p \in 1..Len(ret.rows), q \in 1..Len(ret.rows) :
         p < q => ret.rows[p].idx < ret.rows[q].idx
    /\ \A r \in Range(ret.rows) : r = [AloneRecord(r.idx + 1) EXCEPT !.idx = r.idx]
    /\ file = ScenarioTable =>
         /\ Len(ret.rows) = 1 /\ ret.rows[1].idx = 0
         /\ ret.rows[1].Amount = DivMillion(FALSE, 2000000, 0, 1)
         /\ ret.rows[1].Amount.whole = 2 /\ ret.rows[1].Amount.micro = 0
         /\ ret.rows[1].City = Bangalore

\* the amount text t names one of the rejected unit markers of the claim
HasMarker(t) ==
  \E m \in {<<"l","a","k","h">>, <<"c","r">>, <<"u","n","k","n","o","w","n">>, <<"n","/","a">>} :
    Contains(lower(t), m)

RemoveSymbols(t) == SelectSeq(t, LAMBDA c : c \notin {",", "$"})

\* the text after leading and trailing blanks are removed
Trimmed(t) ==
  IF \A i \in 1..Len(t) : t[i] \in Whitespace THEN <<>>
  ELSE SubSeq(t, CHOOSE i \in 1..Len(t) : t[i] \notin Whitespace /\ \A j \in 1..(i - 1) : t[j] \in Whitespace,
                 CHOOSE i \in 1..Len(t) : t[i] \notin Whitespace /\ \A j \in (i + 1)..Len(t) : t[j] \in Whitespace)

\* the text without its sign
Unsigned(u) == IF u # <<>> /\ u[1] \in {"-", "+"} THEN Tail(u) ELSE u

\* u is a plain decimal numeral: an optional sign, digits, at most one point
PlainNumber(u) ==
  /\ \A i \in 1..Len(Unsigned(u)) : Unsigned(u)[i] \in DigitSet \cup {"."}
  /\ \E i \in 1..Len(Unsigned(u)) : Unsigned(u)[i] \in DigitSet
  /\ Cardinality({i \in 1..Len(Unsigned(u)) : Unsigned(u)[i] = "."}) <= 1

\* the digits of the unsigned numeral b before and after its point
IntDigits(b) == IF \E i \in 1..Len(b) : b[i] = "."
                  THEN SubSeq(b, 1, (CHOOSE i \in 1..Len(b) : b[i] = ".") - 1)
                  ELSE b

FracDigits(b) == IF \E i \in 1..Len(b) : b[i] = "."
                   THEN SubSeq(b, (CHOOSE i \in 1..Len(b) : b[i] = ".") + 1, Len(b))
                   ELSE <<>>

\* the number the plain numeral u names, divided by 1,000,000
MillionthOf(u) ==
  DivMillion(u[1] = "-", DecVal(IntDigits(Unsigned(u))),
             DecVal(FracDigits(Unsigned(u))), Pow10(Len(FracDigits(Unsigned(u)))))

\* two floats are the same number (0.0 and -0.0 are)
SameNumber(a, b) ==
  /\ a.k = "num" /\ b.k = "num"
  /\ a.whole = b.whole /\ a.micro = b.micro /\ a.fnum * b.fden = b.fnum * a.fden
  /\ a.neg = b.neg \/ (a.whole = 0 /\ a.micro = 0 /\ a.fnum = 0)

\* C4: when an amount text is a plain number once every ',' and '$' is
\* removed, clean_amount returns that number divided by 1,000,000 wherever
\* and however often the two symbols occur, the same value the text without
\* the symbols gets, and a row load_data retains carries that value.
C4_SymbolsIgnored ==
  \A i \in 1..Len(file.rows) :
    PlainNumber(Trimmed(RemoveSymbols(RawText(i, 6)))) =>
      /\ SameNumber(AmountOf(i), MillionthOf(Trimmed(RemoveSymbols(RawText(i, 6)))))
      /\ SameNumber(clean_amount(variant, ReadCell(RemoveSymbols(RawText(i, 6)))), AmountOf(i))
      /\ ret.kind = "frame" =>
           \A r \in Range(ret.rows) : r.idx = i - 1 => r.Amount = AmountOf(i)

\* load_data has returned the row whose amount text is "$1,500,000", with
\* amount 1.5
C4_Witness ==
  /\ ret.kind = "frame" /\ Len(ret.rows) = 1
  /\ RawText(1, 6) = <<"$","1",",","5","0","0",",","0","0","0">>
  /\ ret.rows[1].Amount.whole = 1 /\ ret.rows[1].Amount.micro = 500000
  /\ ret.rows[1].Amount.fnum = 0

\* the positions of the '/' characters of u
Slashes(u) == {i \in 1..Len(u) : u[i] = "/"}

\* the three fields of a text with exactly two '/' characters
Field1(u) == SubSeq(u, 1, (CHOOSE i \in Slashes(u) : \A j \in Slashes(u) : i <= j) - 1)

Field2(u) == SubSeq(u, (CHOOSE i \in Slashes(u) : \A j \in Slashes(u) : i <= j) + 1,
                       (CHOOSE i \in Slashes(u) : \A j \in Slashes(u) : i >= j) - 1)

Field3(u) == SubSeq(u, (CHOOSE i \in Slashes(u) : \A j \in Slashes(u) : i >= j) + 1, Len(u))

\* u is day/month/year naming a real calendar date, the day and the month
\* having a number of digits in dl and ml and the year four digits
DMY(u, dl, ml) ==
  /\ Cardinality(Slashes(u)) = 2
  /\ AllDigits(Field1(u)) /\ Len(Field1(u)) \in dl
  /\ AllDigits(Field2(u)) /\ Len(Field2(u)) \in ml
  /\ AllDigits(Field3(u)) /\ Len(Field3(u)) = 4
  /\ DecVal(Field3(u)) >= 1
  /\ DecVal(Field2(u)) \in 1..12
  /\ DecVal(Field1(u)) >= 1
  /\ DecVal(Field1(u)) <= DaysInMonth(DecVal(Field3(u)), DecVal(Field2(u)))

\* the date a day/month/year text names
DateNamed(u) ==
  [ok |-> TRUE, y |-> DecVal(Field3(u)), m |-> DecVal(Field2(u)), d |-> DecVal(Field1(u))]

FieldOf(r, k) == IF k = 2 THEN r.Name ELSE IF k = 3 THEN r.Sector
                 ELSE IF k = 4 THEN r.City ELSE r.Type

\* the raw text is missing: empty or blank, "nan" or "N/A" in any letter
\* case, or a text read_csv reads as a null cell
MissingText(t) ==
  \/ Trimmed(t) = <<>>
  \/ lower(Trimmed(t)) \in {<<"n","a","n">>, <<"n","/","a">>}
  \/ t \in NaValues

\* C7: in every variant and in each of the four categorical fields, a
\* returned row whose raw cell is missing text has the value "Other".
C7_MissingBecomesOther ==
  ret.kind = "frame" =>
    \A r \in Range(ret.rows) : \A k \in 2..5 :
      MissingText(RawText(r.idx + 1, k)) => FieldOf(r, k) = Other

\* the keys of the city synonym table
CityKeys == {kv[1] : kv \in CityTable}

\* C8: a city text that is "Bengaluru" or "Bangalore" in any letter case and
\* with any whitespace around it is cleaned to "Bangalore", and "Gurugram" to
\* "Gurgaon"; no returned record has a city that is a key of the synonym
\* table, and applying the table again changes no returned city.
C8_CityCanonical ==
  /\ \A i \in 1..Len(file.rows) :
       /\ lower(Trimmed(RawText(i, 4))) \in {<<"b","e","n","g","a","l","u","r","u">>,
                                             <<"b","a","n","g","a","l","o","r","e">>}
            => clean_city(variant, ReadCsv(file, i, ColumnPlan[4])) = Bangalore
       /\ lower(Trimmed(RawText(i, 4))) = <<"g","u","r","u","g","r","a","m">>
            => clean_city(variant, ReadCsv(file, i, ColumnPlan[4]))
                 = <<"G","u","r","g","a","o","n">>
  /\ ret.kind = "frame" =>
       \A r \in Range(ret.rows) :
         /\ r.City = clean_city(variant, ReadCsv(file, r.idx + 1, ColumnPlan[4]))
         /\ r.City \notin CityKeys
         /\ ReplaceBy(CityTable, r.City) = r.City

\* load_data has returned a row whose city text is "bengaluru" in another
\* casing with a blank before it, and whose city is "Bangalore"
C8_Witness ==
  /\ ret.kind = "frame" /\ Len(ret.rows) = 1
  /\ RawText(1, 4) = <<" ", "b", "E", "N", "G", "A", "L", "U", "R", "U">>
  /\ ret.rows[1].City = Bangalore

\* C9: when the source table has no date-labelled column, a call of
\* load_data reports an error and returns no record set.
C9_NoDateColumnReported ==
  [][(MainLoadData /\ file.readable /\ ~file.dateLabel)
       => (ret'.kind = "frame" /\ ret'.err # {} /\ ~ret'.cols)]_vars

\* C10: when the source file cannot be read, or the column plan points past
\* its columns, a call of load_data reports an error message and returns an
\* empty result without columns, and main stops with nothing but the title
\* rendered.
C10_ReadFailureReported ==
  [][(MainLoadData /\ (~file.readable \/ PlanOutOfBounds(file)))
       => /\ ret'.kind = "frame" /\ ret'.err # {} /\ msgs' # {}
          /\ IsEmpty(ret') /\ ~ret'.cols
          /\ page'.status = "stopped" /\ page'.shown = {"title"} /\ pc' = "idle"]_vars

\* C11: a run of load_data returns the record set that a run on the same
\* table with no call before it returns (same rows, same order, same field
\* values), whatever tables were normalized and whatever calls were made
\* earlier.
C11_HistoryIndependent ==
  [][MainLoadData
       => /\ ret'.kind = load_body(variant, file).kind
          /\ ret'.rows = load_body(variant, file).rows]_vars

\* C12: after every call of load_data the cached record set, and the record
\* set the call returns with its messages, are those derived from the content
\* merged.csv.csv has at that call, never from an earlier content.
C12_CacheFollowsFile ==
  [][MainLoadData
       => /\ cache'.has => cache'.out = load_body(variant, file)
          /\ cache.has => ret' = load_body(variant, file)
          /\ msgs' = load_body(variant, file).err]_vars

\* C13: in every run of main the aggregation and chart functions and the
\* min/max computations of the sliders are invoked on non-empty record sets
\* only; when the filtered set is empty the "no data" warning is shown, no
\* aggregation or chart function is invoked, and the run stops.
C13_AggregationsNonEmpty ==
  /\ \A c \in page.calls :
       c[1] \in Aggregations \cup {"min_max_year", "min_max_amount"} => c[2] > 0
  /\ <<"nunique", 0>> \in page.calls =>
       /\ page.status = "warned" /\ NoData \in msgs /\ pc = "idle"
       /\ page.shown \cap Charts = {}
       /\ \A c \in page.calls : c[1] \notin Aggregations

\* a run of app2.py in which every filter left nothing ended with the
\* warning, after the min/max of both sliders were computed
C13_Witness ==
  /\ variant = "app2" /\ page.status = "warned" /\ NoData \in msgs
  /\ <<"nunique", 0>> \in page.calls
  /\ \E c \in page.calls : c[1] = "min_max_year"
  /\ \E c \in page.calls : c[1] = "min_max_amount"

\* C14: in every variant, for every non-empty record set load_data returns,
\* the default selection of the city multiselect is a subset of its options,
\* the cities of the record set, and no run fails at the multiselect.
C14_DefaultWithinOptions ==
  /\ (ret.kind = "frame" /\ ~IsEmpty(ret))
       => DefaultCities(variant, ret.rows) \subseteq Cities(ret.rows)
  /\ ~(page.status = "raised" /\ "year_slider" \in page.shown)

\* C15: for every raw table the load_data of app.py, app1.py and app2.py
\* return the same record set: the same surviving rows and, for each of
\* them, the same amount, date, startup name, sector, city and investment
\* type.
C15_VariantsAgree ==
  Loaded =>
    \A v \in Variants :
      /\ load_body(v, file).kind = ret.kind
      /\ load_body(v, file).rows = ret.rows

====
